---- MODULE Spec2Model ----
(***************************************************************************)
(* The projection engine of src/src/app/page.tsx: simulate(I) and the      *)
(* selection of the best scenario in DownsizingAnalyzer.                   *)
(*                                                                         *)
(* Numbers.  A JavaScript number is modelled as a pair <<n, d>>:           *)
(*   d > 0   the exact rational n/d in lowest terms,                       *)
(*   <<1,0>> +Infinity,  <<-1,0>> -Infinity,  <<0,0>> NaN.                 *)
(* Arithmetic is exact on the finite values (the rounding of IEEE doubles  *)
(* is not modelled) and follows IEEE 754 on the three non-finite values,   *)
(* which division by zero produces.                                        *)
(*                                                                         *)
(* Unit.  simulate is homogeneous in the currency amounts except for the   *)
(* literal 1e-6 of line 157.  Amounts are expressed in units of 1e-6 of    *)
(* the currency, so that literal is the number 1 (EPS).                    *)
(***************************************************************************)
EXTENDS Integers, Sequences, FiniteSets, TLC

----------------------------------------------------------------------------
(* Numbers *)

Abs(k) == IF k < 0 THEN -k ELSE k

Sgn(k) == IF k > 0 THEN 1 ELSE IF k < 0 THEN -1 ELSE 0

RECURSIVE GCD(_, _)
GCD(a, b) == IF b = 0 THEN a ELSE GCD(b, a % b)

NaN == <<0, 0>>

PosInf == <<1, 0>>

NegInf == <<-1, 0>>

\* the rational n/d, d > 0, in lowest terms
Q(n, d) ==
    LET g == GCD(Abs(n), d)
    IN  <<n \div g, d \div g>>

\* the integer k as a number
R(k) == <<k, 1>>

Zero == R(0)

One == R(1)

IsNaN(x) == x = NaN

IsFinite(x) == x[2] > 0

Neg(x) == <<-x[1], x[2]>>

\* x + y
Add(x, y) ==
    IF IsFinite(x) /\ IsFinite(y)
    THEN LET g == GCD(x[2], y[2])
         IN  Q(x[1] * (y[2] \div g) + y[1] * (x[2] \div g), (x[2] \div g) * y[2])
    ELSE IF IsNaN(x) \/ IsNaN(y) THEN NaN
    ELSE IF IsFinite(x) THEN y
    ELSE IF IsFinite(y) THEN x
    ELSE IF x = y THEN x ELSE NaN

\* x - y
Sub(x, y) == Add(x, Neg(y))

\* x * y
Mul(x, y) ==
    IF IsFinite(x) /\ IsFinite(y)
    THEN LET g1 == GCD(Abs(x[1]), y[2])
             g2 == GCD(Abs(y[1]), x[2])
         IN  <<(x[1] \div g1) * (y[1] \div g2), (x[2] \div g2) * (y[2] \div g1)>>
    ELSE <<Sgn(x[1]) * Sgn(y[1]), 0>>

\* 1 / x  (the zero of the model is +0)
Recip(x) ==
    IF x[1] > 0 THEN <<x[2], x[1]>>
    ELSE IF x[1] < 0 THEN <<-x[2], -x[1]>>
    ELSE IF IsNaN(x) THEN NaN ELSE PosInf

\* x / y
Div(x, y) == Mul(x, Recip(y))

\* x < y, x <= y as JavaScript compares: false when either side is NaN
Lt(x, y) == ~IsNaN(x) /\ ~IsNaN(y) /\ x # y /\ Sub(x, y)[1] < 0

Leq(x, y) == ~IsNaN(x) /\ ~IsNaN(y) /\ (x = y \/ Sub(x, y)[1] < 0)

\* Math.min, Math.max: NaN when either argument is NaN
MathMin(x, y) == IF IsNaN(x) \/ IsNaN(y) THEN NaN ELSE IF Leq(x, y) THEN x ELSE y

MathMax(x, y) == IF IsNaN(x) \/ IsNaN(y) THEN NaN ELSE IF Leq(x, y) THEN y ELSE x

\* Math.pow(x, k) for an integer exponent k
RECURSIVE Pow(_, _)
Pow(x, k) ==
    IF k = 0 THEN One
    ELSE IF k < 0 THEN Recip(Pow(x, -k))
    ELSE Mul(x, Pow(x, k - 1))

----------------------------------------------------------------------------
(* Helpers of page.tsx *)

\* const pct = (x) => x / 100
pct(x) == Div(x, R(100))

\* amortizationPayment(principal, annualRatePct, years); years is an integer
amortizationPayment(principal, annualRatePct, years) ==
    LET r == Div(pct(annualRatePct), R(12))
        n == years * 12
    IN  IF r = Zero
        THEN Div(principal, R(n))
        ELSE Div(Mul(principal, r), Sub(One, Pow(Add(One, r), -n)))

\* growAnnual with a year of rent withdrawn from the grown value: 12 times
\* the starting rent of RentInputs
growAnnual_LessOutflow(value, ratePct) ==
    Sub(Mul(value, Pow(Add(One, pct(ratePct)), 1)), Mul(R(12), R(3)))

\* growAnnual(value, ratePct, years = 1); every call site uses the default
growAnnual(value, ratePct) == Mul(value, Pow(Add(One, pct(ratePct)), 1))

\* the reduce of npv with the positions counted from 1
RECURSIVE npvReduce_FromOne(_, _, _)
npvReduce_FromOne(cashflows, r, k) ==
    IF k = 0 THEN Zero
    ELSE Add(npvReduce_FromOne(cashflows, r, k - 1),
             Div(cashflows[k], Pow(Add(One, r), k)))

\* the reduce of npv with the weight taken from r instead of 1 + r
RECURSIVE npvReduce_RateOnly(_, _, _)
npvReduce_RateOnly(cashflows, r, k) ==
    IF k = 0 THEN Zero
    ELSE Add(npvReduce_RateOnly(cashflows, r, k - 1),
             Div(cashflows[k], Pow(r, k - 1)))

\* the reduce of npv over the first k entries: acc + cf / Math.pow(1 + r, t),
\* t the 0-based position of cf
RECURSIVE npvReduce(_, _, _)
npvReduce(cashflows, r, k) ==
    IF k = 0 THEN Zero
    ELSE Add(npvReduce(cashflows, r, k - 1),
             Div(cashflows[k], Pow(Add(One, r), k - 1)))

\* npv(cashflows, discountRatePct)
npv(cashflows, discountRatePct) ==
    npvReduce(cashflows, pct(discountRatePct), Len(cashflows))

\* the literal 1e-6 of line 157, in units of 1e-6 of the currency
EPS == <<1, 1>>

\* the 12 of the monthly loop, line 152
MonthsPerYear == 12

----------------------------------------------------------------------------
(* Inputs: the parameter sets simulate is run on.  Amounts are multiples of *)
(* 4095 = 2^12 - 1 and rates are 0, 50, 100 or 1200 percent, so that every  *)
(* quotient of the projection stays a small exact fraction.                 *)

\* the longest horizon (I.years) tried
MaxYears == 3

\* sale of the current home: net proceeds 4095/8, 4095/16, 0 and -4095/8
SaleInputs ==
    { [currentHomeValue |-> Q(4095, 4), currentMortgageBalance |-> R(0),
       sellingCostsPct |-> R(50), capGainsTaxPct |-> R(0),
       currentHomeAppreciationPct |-> R(100)],
      [currentHomeValue |-> Q(4095, 4), currentMortgageBalance |-> Q(4095, 8),
       sellingCostsPct |-> R(0), capGainsTaxPct |-> R(50),
       currentHomeAppreciationPct |-> R(50)],
      [currentHomeValue |-> Q(4095, 4), currentMortgageBalance |-> Q(4095, 8),
       sellingCostsPct |-> R(50), capGainsTaxPct |-> R(50),
       currentHomeAppreciationPct |-> R(0)],
      [currentHomeValue |-> Q(4095, 4), currentMortgageBalance |-> Q(12285, 8),
       sellingCostsPct |-> R(0), capGainsTaxPct |-> R(50),
       currentHomeAppreciationPct |-> R(100)] }

\* mortgage rate (percent a year) and term (years): a monthly rate of 0 or 1
LoanTerms ==
    { <<0, 0>>, <<0, 1>>, <<0, 2>>, <<1200, 0>>, <<1200, 1>> }

\* price of the smaller home: none, about two units of EPS, and 4095
HomePrices == { R(0), Q(4095, 2048), R(4095) }

PurchaseInputs ==
    { [smallerHomePrice |-> p, smallerHomeClosingPct |-> R(50),
       downPaymentFromProceedsPct |-> R(dp), mortgageRatePct |-> R(lt[1]),
       mortgageYears |-> lt[2], propertyTaxPct |-> R(50),
       insuranceAnnual |-> R(6), hoaMonthly |-> R(1),
       maintenancePct |-> R(100), homeAppreciationPct |-> R(100)] :
      p \in HomePrices, dp \in {0, 100}, lt \in LoanTerms }

RentInputs ==
    { [monthlyRent |-> R(3), rentAnnualInflationPct |-> R(100),
       includeStorage |-> FALSE, storageMonthly |-> R(2),
       storageAnnualInflationPct |-> R(50)],
      [monthlyRent |-> R(3), rentAnnualInflationPct |-> R(50),
       includeStorage |-> TRUE, storageMonthly |-> R(2),
       storageAnnualInflationPct |-> R(100)] }

InvestInputs ==
    { [useIVV |-> TRUE, ivvAnnualReturnPct |-> R(100), investReturnPct |-> R(50),
       returnAdjustPct |-> R(50), investTaxDragPct |-> R(50),
       investShareA |-> R(100), investShareB |-> R(50), investShareC |-> R(100),
       discountRatePct |-> R(0)],
      [useIVV |-> FALSE, ivvAnnualReturnPct |-> R(100), investReturnPct |-> R(50),
       returnAdjustPct |-> R(0), investTaxDragPct |-> R(0),
       investShareA |-> R(50), investShareB |-> R(100), investShareC |-> R(50),
       discountRatePct |-> R(100)],
      [useIVV |-> TRUE, ivvAnnualReturnPct |-> R(50), investReturnPct |-> R(100),
       returnAdjustPct |-> R(0), investTaxDragPct |-> R(0),
       investShareA |-> R(100), investShareB |-> R(0), investShareC |-> R(50),
       discountRatePct |-> R(100)] }

KeepInputs ==
    { [keepPropertyTaxAnnual |-> R(5), keepInsuranceAnnual |-> R(3),
       keepHoaMonthly |-> R(1), keepExtraMaintAnnual |-> R(2)] }

\* type Inputs
Inputs ==
    { s @@ p @@ r @@ v @@ k @@ [years |-> n] :
      s \in SaleInputs, p \in PurchaseInputs, r \in RentInputs,
      v \in InvestInputs, k \in KeepInputs, n \in 0..MaxYears }

----------------------------------------------------------------------------
(* Inputs of the sale runs: simulate on sales of every kind, with no smaller *)
(* home and no down payment, so that no loan runs and the only comparison   *)
(* with the literal of line 157 is that of a zero balance.  The amounts of  *)
(* these runs are whole currency units.                                     *)

SalePrices == { R(0), R(1000), R(1300000) }

SaleBalances == { R(0), R(400), R(2000) }

SaleRates == { R(0), R(6), R(50) }

SaleCases ==
    { [currentHomeValue |-> p, currentMortgageBalance |-> b,
       sellingCostsPct |-> sc, capGainsTaxPct |-> cg,
       currentHomeAppreciationPct |-> R(0)] :
      p \in SalePrices, b \in SaleBalances, sc \in SaleRates, cg \in SaleRates }

\* the other fields of a sale run
SaleRunRest ==
    { [smallerHomePrice |-> R(0), smallerHomeClosingPct |-> R(50),
       downPaymentFromProceedsPct |-> R(0), mortgageRatePct |-> R(0),
       mortgageYears |-> 1, propertyTaxPct |-> R(50),
       insuranceAnnual |-> R(6), hoaMonthly |-> R(1),
       maintenancePct |-> R(100), homeAppreciationPct |-> R(100),
       monthlyRent |-> R(3), rentAnnualInflationPct |-> R(100),
       includeStorage |-> FALSE, storageMonthly |-> R(2),
       storageAnnualInflationPct |-> R(50),
       useIVV |-> TRUE, ivvAnnualReturnPct |-> R(100), investReturnPct |-> R(50),
       returnAdjustPct |-> R(50), investTaxDragPct |-> R(50),
       investShareA |-> R(100), investShareB |-> R(50), investShareC |-> R(100),
       discountRatePct |-> R(0)] }

SaleRuns ==
    { s @@ p @@ k @@ [years |-> n] :
      s \in SaleCases, p \in SaleRunRest, k \in KeepInputs, n \in 0..MaxYears }

----------------------------------------------------------------------------
(* State: the locals of one call simulate(I) and the best of line 345 *)

VARIABLES
    I,                    \* the argument of simulate
    pc,                   \* position in simulate / DownsizingAnalyzer
    y,                    \* year counter of the loop of line 136
    m,                    \* month counter of the loop of line 152
    netProceeds,
    investNetRate,
    dpB,
    mortgagePayment,
    monthlyMortgageRate,
    remainingPrincipal,
    rent,
    storage,
    homeValueB,
    keepHomeValue,
    investA,
    investB,
    investC,
    cashC,
    results,
    yearlyData,
    cashflowsA,
    cashflowsB,
    cashflowsC,
    cashflowsD,
    rentAnnual,           \* locals of the current year
    storageAnnual,
    outA,
    interestPaidYear,
    interest,             \* locals of the last monthly step
    principalPaid,
    principalBefore,      \* remainingPrincipal as the last monthly step read it
    npvArgs,              \* the four vectors passed to npv, lines 211-214
    best,                 \* useMemo of line 345
    prev                  \* what the render before the last edit showed

setupVars ==
    <<netProceeds, investNetRate, dpB, mortgagePayment, monthlyMortgageRate, cashC>>

growVars ==
    <<rent, storage, homeValueB, keepHomeValue, investA, investB, investC>>

outVars ==
    <<results, yearlyData, cashflowsA, cashflowsB, cashflowsC, cashflowsD, npvArgs, best>>

yearVars == <<rentAnnual, storageAnnual, outA>>

monthVars == <<interest, principalPaid, principalBefore>>

vars ==
    <<I, prev, pc, y, m, remainingPrincipal, interestPaidYear,
      setupVars, growVars, outVars, yearVars, monthVars>>

\* before the first statement of simulate: no local is set
InitLocals ==
    /\ pc = "setup"
    /\ y = 1
    /\ m = 0
    /\ netProceeds = Zero
    /\ investNetRate = Zero
    /\ dpB = Zero
    /\ mortgagePayment = Zero
    /\ monthlyMortgageRate = Zero
    /\ remainingPrincipal = Zero
    /\ rent = Zero
    /\ storage = Zero
    /\ homeValueB = Zero
    /\ keepHomeValue = Zero
    /\ investA = Zero
    /\ investB = Zero
    /\ investC = Zero
    /\ cashC = Zero
    /\ results = <<>>
    /\ yearlyData = <<>>
    /\ cashflowsA = <<>>
    /\ cashflowsB = <<>>
    /\ cashflowsC = <<>>
    /\ cashflowsD = <<>>
    /\ rentAnnual = Zero
    /\ storageAnnual = Zero
    /\ outA = Zero
    /\ interestPaidYear = Zero
    /\ interest = Zero
    /\ principalPaid = Zero
    /\ principalBefore = Zero
    /\ npvArgs = <<>>
    /\ best = "none"

\* no render before the first
NoRender ==
    [edited |-> "none", netProceeds |-> Zero, yearlyData |-> <<>>, results |-> <<>>]

Init ==
    /\ I \in Inputs
    /\ prev = NoRender
    /\ InitLocals

----------------------------------------------------------------------------
(* simulate, lines 96-134: proceeds, return assumption, mortgage setup *)

\* the tax of line 101 taken on the equity without the clamp at zero
NetProceeds_TaxUnclamped(inp) ==
    LET grossSale == inp.currentHomeValue
        sellingCosts == Mul(grossSale, pct(inp.sellingCostsPct))
        equityBeforeTax == Sub(Sub(grossSale, inp.currentMortgageBalance), sellingCosts)
        capGainsTax == Mul(equityBeforeTax, pct(inp.capGainsTaxPct))
    IN  Sub(equityBeforeTax, capGainsTax)

\* lines 98-102
NetProceeds(inp) ==
    LET grossSale == inp.currentHomeValue
        sellingCosts == Mul(grossSale, pct(inp.sellingCostsPct))
        equityBeforeTax == Sub(Sub(grossSale, inp.currentMortgageBalance), sellingCosts)
        capGainsTax == Mul(MathMax(Zero, equityBeforeTax), pct(inp.capGainsTaxPct))
    IN  Sub(equityBeforeTax, capGainsTax)

\* the net rate with the baseline always read from the index assumption
InvestNetRate_AlwaysIVV(inp) ==
    Sub(Add(inp.ivvAnnualReturnPct, inp.returnAdjustPct), inp.investTaxDragPct)

\* lines 105-107
InvestNetRate(inp) ==
    LET baseline == IF inp.useIVV THEN inp.ivvAnnualReturnPct ELSE inp.investReturnPct
        investGrossRate == Add(baseline, inp.returnAdjustPct)
    IN  Sub(investGrossRate, inp.investTaxDragPct)

\* line 132: the upfront entry of scenario B
UpfrontB(inp, dp) ==
    Sub(Neg(Mul(inp.smallerHomePrice, pct(inp.smallerHomeClosingPct))), dp)

Setup ==
    /\ pc = "setup"
    /\ LET np == NetProceeds(I)
           dp == Mul(np, pct(I.downPaymentFromProceedsPct))
           mortgagePrincipalB == MathMax(Zero, Sub(I.smallerHomePrice, dp))
       IN  /\ netProceeds' = np
           /\ investNetRate' = InvestNetRate(I)
           /\ dpB' = dp
           /\ mortgagePayment' =
                  amortizationPayment(mortgagePrincipalB, I.mortgageRatePct, I.mortgageYears)
           /\ monthlyMortgageRate' = Div(pct(I.mortgageRatePct), R(12))
           /\ remainingPrincipal' = mortgagePrincipalB
           /\ rent' = I.monthlyRent
           /\ storage' = I.storageMonthly
           /\ homeValueB' = I.smallerHomePrice
           /\ keepHomeValue' = I.currentHomeValue
           /\ investA' = Mul(np, pct(I.investShareA))
           /\ investB' = Mul(Sub(np, dp), pct(I.investShareB))
           /\ investC' = Mul(np, pct(I.investShareC))
           /\ cashC' = Mul(np, Sub(One, pct(I.investShareC)))
           /\ cashflowsA' = <<Zero>>
           /\ cashflowsB' = <<UpfrontB(I, dp)>>
           /\ cashflowsC' = <<Zero>>
           /\ cashflowsD' = <<Zero>>
    /\ results' = <<>>
    /\ yearlyData' = <<>>
    /\ y' = 1
    /\ pc' = "year"
    /\ UNCHANGED <<I, prev, m, interestPaidYear, yearVars, monthVars, npvArgs, best>>

----------------------------------------------------------------------------
(* the year loop, lines 136-202 *)

\* lines 145-146: the figures of the next year
Inflate(value, ratePct) == Mul(value, Add(One, pct(ratePct)))

\* the annual rent taken after the rent of the year was inflated
RentAnnual_AfterInflation(rentNow) ==
    Mul(Inflate(rentNow, I.rentAnnualInflationPct), R(12))

\* lines 143-148: annual rent and storage of the year, before inflation
RentAnnual(rentNow) == Mul(rentNow, R(12))

StorageAnnual(inp, storageNow) ==
    Mul(IF inp.includeStorage THEN storageNow ELSE Zero, R(12))

\* a loop test that stops one year early
LoopTest_Strict(year, horizon) == year < horizon

\* line 136: y <= I.years
LoopTest(year, horizon) == year <= horizon

\* lines 136-151: loop test, growth, rent and storage, start of the month loop
YearBegin ==
    /\ pc = "year"
    /\ LoopTest(y, I.years)
    /\ investA' = growAnnual(investA, investNetRate)
    /\ investB' = growAnnual(investB, investNetRate)
    /\ investC' = growAnnual(investC, investNetRate)
    /\ rentAnnual' = RentAnnual(rent)
    /\ storageAnnual' = StorageAnnual(I, storage)
    /\ rent' = Inflate(rent, I.rentAnnualInflationPct)
    /\ storage' = Inflate(storage, I.storageAnnualInflationPct)
    /\ outA' = Add(RentAnnual(rent), StorageAnnual(I, storage))
    /\ interestPaidYear' = Zero
    /\ m' = 0
    /\ pc' = "month"
    /\ UNCHANGED <<I, prev, y, remainingPrincipal, setupVars, homeValueB, keepHomeValue,
                   outVars, monthVars>>

\* line 153
Interest(remaining, rate) == Mul(remaining, rate)

\* the subtraction of line 154 with its operands swapped
PrincipalPaid_Swapped(payment, interestNow, remaining) ==
    MathMin(Sub(interestNow, payment), remaining)

\* the principal part of the payment without the cap to the balance
PrincipalPaid_NoCap(payment, interestNow, remaining) == Sub(payment, interestNow)

\* line 154
PrincipalPaid(payment, interestNow, remaining) ==
    MathMin(Sub(payment, interestNow), remaining)

\* line 157: the test of the early exit
PaidOff(remaining) == Leq(remaining, EPS)

\* lines 152-158: one pass of the month loop, with the break and the loop test
MonthStep ==
    /\ pc = "month"
    /\ m < MonthsPerYear
    /\ LET i == Interest(remainingPrincipal, monthlyMortgageRate)
           pp == PrincipalPaid(mortgagePayment, i, remainingPrincipal)
           rem == Sub(remainingPrincipal, pp)
       IN  /\ interest' = i
           /\ principalPaid' = pp
           /\ principalBefore' = remainingPrincipal
           /\ remainingPrincipal' = rem
           /\ interestPaidYear' = Add(interestPaidYear, i)
           /\ IF PaidOff(rem)
              THEN m' = m /\ pc' = "yearEnd"
              ELSE m' = m + 1 /\ pc' = IF m + 1 < MonthsPerYear THEN "month" ELSE "yearEnd"
    /\ UNCHANGED <<I, prev, y, setupVars, growVars, outVars, yearVars>>

\* lines 179-195: the snapshot of the year
Snapshot(year, costsB, outC, outD, hvB, khv) ==
    [year |-> year,
     netWorthA |-> Sub(investA, outA),
     netWorthB |-> Sub(Sub(Add(investB, hvB), remainingPrincipal), costsB),
     netWorthC |-> Sub(Add(investC, cashC), outC),
     netWorthD |-> Sub(khv, outD),
     investA |-> investA,
     investB |-> investB,
     investC |-> investC,
     outA |-> outA,
     homeCostsB |-> costsB,
     outC |-> outC,
     outD |-> outD,
     remainingPrincipal |-> MathMax(Zero, remainingPrincipal),
     homeValueB |-> hvB,
     keepHomeValue |-> khv]

\* lines 159-162
HomeCostsB(inp, interestYear, hvB) ==
    LET propertyTaxB == Mul(hvB, pct(inp.propertyTaxPct))
        maintenanceB == Mul(hvB, pct(inp.maintenancePct))
        hoaB == Mul(inp.hoaMonthly, R(12))
    IN  Add(Add(Add(Add(interestYear, propertyTaxB), maintenanceB), inp.insuranceAnnual), hoaB)

\* lines 169-170
OutD(inp) ==
    LET hoaD == Mul(inp.keepHoaMonthly, R(12))
    IN  Add(Add(Add(inp.keepPropertyTaxAnnual, inp.keepInsuranceAnnual), hoaD),
            inp.keepExtraMaintAnnual)

\* lines 159-202: costs of B and D, snapshot, cash flows, y++
YearEnd ==
    /\ pc = "yearEnd"
    /\ LET homeCostsB == HomeCostsB(I, interestPaidYear, homeValueB)
           hvB == growAnnual(homeValueB, I.homeAppreciationPct)
           outC == Add(rentAnnual, storageAnnual)
           outD == OutD(I)
           khv == growAnnual(keepHomeValue, I.currentHomeAppreciationPct)
       IN  /\ homeValueB' = hvB
           /\ keepHomeValue' = khv
           /\ yearlyData' = Append(yearlyData,
                  Snapshot(y, homeCostsB, outC, outD, hvB, khv))
           /\ cashflowsA' = Append(cashflowsA, Neg(outA))
           /\ cashflowsB' = Append(cashflowsB, Neg(homeCostsB))
           /\ cashflowsC' = Append(cashflowsC, Neg(outC))
           /\ cashflowsD' = Append(cashflowsD, Neg(outD))
    /\ y' = y + 1
    /\ pc' = "year"
    /\ UNCHANGED <<I, prev, m, remainingPrincipal, interestPaidYear, setupVars,
                   rent, storage, investA, investB, investC,
                   results, npvArgs, best, yearVars, monthVars>>

----------------------------------------------------------------------------
(* simulate, lines 204-221: terminal values, NPV, results *)

\* yearlyData.at(-1)?.f ?? 0
LastOr0(data, f) == IF data = <<>> THEN Zero ELSE data[Len(data)][f]

\* the terminal value of A read from the balance of scenario B
TerminalA_FromB(data) == LastOr0(data, "investB")

\* lines 205-209
TerminalA(data) == LastOr0(data, "investA")

TerminalB(data) ==
    Add(Sub(LastOr0(data, "homeValueB"), LastOr0(data, "remainingPrincipal")),
        LastOr0(data, "investB"))

TerminalC(data, cash) == Add(LastOr0(data, "investC"), cash)

TerminalD(data) == LastOr0(data, "keepHomeValue")

\* [...cashflows, terminal], lines 211-214
NpvArg(cashflows, terminal) == Append(cashflows, terminal)

\* one entry of results, lines 216-219; the key is the scenario letter that
\* starts the label
Result(key, args, discountRatePct) ==
    [key |-> key, npv |-> npv(args, discountRatePct), terminal |-> args[Len(args)]]

\* lines 136 (loop exit) and 204-221
Finish ==
    /\ pc = "year"
    /\ ~LoopTest(y, I.years)
    /\ LET argA == NpvArg(cashflowsA, TerminalA(yearlyData))
           argB == NpvArg(cashflowsB, TerminalB(yearlyData))
           argC == NpvArg(cashflowsC, TerminalC(yearlyData, cashC))
           argD == NpvArg(cashflowsD, TerminalD(yearlyData))
       IN  /\ npvArgs' = <<argA, argB, argC, argD>>
           /\ results' = <<Result("A", argA, I.discountRatePct),
                           Result("B", argB, I.discountRatePct),
                           Result("C", argC, I.discountRatePct),
                           Result("D", argD, I.discountRatePct)>>
    /\ pc' = "returned"
    /\ UNCHANGED <<I, prev, y, m, remainingPrincipal, interestPaidYear, setupVars, growVars,
                   yearlyData, cashflowsA, cashflowsB, cashflowsC, cashflowsD, best,
                   yearVars, monthVars>>

----------------------------------------------------------------------------
(* DownsizingAnalyzer, line 345: [...results].sort((a, b) => b.npv - a.npv)[0] *)

\* the comparator returns a value > 0: a is to come after b.  A NaN
\* difference counts as 0 (ECMAScript SortCompare).
ComesAfter(a, b) == Lt(Zero, Sub(b.npv, a.npv))

\* stable insertion of e into the sorted sequence s
RECURSIVE InsertSorted(_, _)
InsertSorted(s, e) ==
    IF s = <<>> THEN <<e>>
    ELSE LET last == s[Len(s)]
         IN  IF ComesAfter(last, e)
             THEN Append(InsertSorted(SubSeq(s, 1, Len(s) - 1), e), last)
             ELSE Append(s, e)

\* Array.prototype.sort with a consistent comparator: the stable sort
RECURSIVE StableSort(_, _)
StableSort(s, k) ==
    IF k = 0 THEN <<>> ELSE InsertSorted(StableSort(s, k - 1), s[k])

\* the comparator is a consistent comparator on s: no NaN among the keys
ConsistentOn(s) == \A i \in 1..Len(s) : ~IsNaN(s[i].npv)

\* the sorted copies the engine may produce: the stable sort, or, the order
\* being implementation-defined with an inconsistent comparator, any
\* rearrangement of the copy
SortedCopies(s) ==
    IF ConsistentOn(s)
    THEN {StableSort(s, Len(s))}
    ELSE { [i \in 1..Len(s) |-> s[p[i]]] :
           p \in {q \in [1..Len(s) -> 1..Len(s)] :
                    \A i, j \in 1..Len(s) : i # j => q[i] # q[j]} }

SelectBest ==
    /\ pc = "returned"
    /\ \E sorted \in SortedCopies(results) : best' = sorted[1]
    /\ pc' = "done"
    /\ UNCHANGED <<I, prev, y, m, remainingPrincipal, interestPaidYear, setupVars, growVars,
                   results, yearlyData, cashflowsA, cashflowsB, cashflowsC, cashflowsD,
                   npvArgs, yearVars, monthVars>>

----------------------------------------------------------------------------
(* DownsizingAnalyzer, lines 436 and 441: an edit of a baseline return.  The *)
(* new inputs object makes useMemo (line 344) run simulate again.  The      *)
(* field that is not shown is edited by way of the switch of line 432.      *)

BaselineFields == {"ivvAnnualReturnPct", "investReturnPct"}

\* the values typed into a baseline field
BaselineValues == {R(50), R(100)}

\* setInputs(i => ({...i, [field]: v}))
EditBaseline ==
    /\ pc = "done"
    /\ \E field \in BaselineFields :
         \E v \in BaselineValues \ {I[field]} :
            /\ I' = [I EXCEPT ![field] = v]
            /\ prev' = [edited |-> field, netProceeds |-> netProceeds,
                        yearlyData |-> yearlyData, results |-> results]
    \* the new call of simulate starts with no local set
    /\ pc' = "setup"
    /\ y' = 1
    /\ m' = 0
    /\ netProceeds' = Zero
    /\ investNetRate' = Zero
    /\ dpB' = Zero
    /\ mortgagePayment' = Zero
    /\ monthlyMortgageRate' = Zero
    /\ remainingPrincipal' = Zero
    /\ rent' = Zero
    /\ storage' = Zero
    /\ homeValueB' = Zero
    /\ keepHomeValue' = Zero
    /\ investA' = Zero
    /\ investB' = Zero
    /\ investC' = Zero
    /\ cashC' = Zero
    /\ results' = <<>>
    /\ yearlyData' = <<>>
    /\ cashflowsA' = <<>>
    /\ cashflowsB' = <<>>
    /\ cashflowsC' = <<>>
    /\ cashflowsD' = <<>>
    /\ rentAnnual' = Zero
    /\ storageAnnual' = Zero
    /\ outA' = Zero
    /\ interestPaidYear' = Zero
    /\ interest' = Zero
    /\ principalPaid' = Zero
    /\ principalBefore' = Zero
    /\ npvArgs' = <<>>
    /\ best' = "none"

----------------------------------------------------------------------------

Next ==
    \/ Setup
    \/ YearBegin
    \/ MonthStep
    \/ YearEnd
    \/ Finish
    \/ SelectBest

Spec == Init /\ [][Next]_vars

\* simulate on the sale runs
SaleInit ==
    /\ I \in SaleRuns
    /\ prev = NoRender
    /\ InitLocals

SaleSpec == SaleInit /\ [][Next]_vars

\* simulate, run again after every edit of a baseline return
RerunNext ==
    \/ Next
    \/ EditBaseline

RerunSpec == Init /\ [][RerunNext]_vars

----------------------------------------------------------------------------
(* Claims *)

\* simulate has returned
Returned == pc \in {"returned", "done"}

\* the last action was a monthly step: interest, principalPaid and
\* principalBefore are those of that step
StepTaken == (pc = "month" /\ m > 0) \/ pc = "yearEnd"

\* C1: for horizon N simulate returns N snapshots whose year fields are
\* 1, 2, ..., N in that order, and four results in the order A, B, C, D.
C1_SnapshotsAndResults ==
    /\ \A i \in 1..Len(yearlyData) : yearlyData[i].year = i
    /\ Returned =>
         /\ Len(yearlyData) = I.years
         /\ Len(results) = 4
         /\ <<results[1].key, results[2].key, results[3].key, results[4].key>>
              = <<"A", "B", "C", "D">>

C1_Witness ==
    /\ Returned
    /\ I.years >= 3
    /\ Len(yearlyData) = I.years
    /\ yearlyData[3].year = 3
    /\ Len(results) = 4

C3_EqualNpvAsStated ==
    (Returned /\ I.investShareA = I.investShareC /\ ~I.includeStorage)
        => results[1].npv = results[3].npv

\* C3, amended: with investShareA = investShareC, storage disabled and no
\* uninvested cash in scenario C (the share is 100% or the net proceeds are
\* zero), the NPV of result A equals the NPV of result C, for every horizon.
C3_EqualNpvWithoutCash ==
    (/\ Returned
     /\ I.investShareA = I.investShareC
     /\ ~I.includeStorage
     /\ (I.investShareC = R(100) \/ netProceeds = Zero))
        => results[1].npv = results[3].npv

\* both scenarios fully invested, proceeds not zero, three years projected
C3_Witness ==
    /\ Returned
    /\ I.investShareA = I.investShareC
    /\ ~I.includeStorage
    /\ I.investShareC = R(100)
    /\ netProceeds # Zero
    /\ I.years = 3
    /\ results[1].npv = results[3].npv
    /\ results[1].npv # Zero

\* the inputs section 7 of the specification calls degenerate; every rate of
\* Inputs is finite
Degenerate(inp) == inp.years = 0 \/ inp.mortgageYears = 0

\* every number of what simulate returns is finite
AllFinite ==
    /\ IsFinite(netProceeds)
    /\ \A i \in 1..Len(results) : IsFinite(results[i].npv) /\ IsFinite(results[i].terminal)
    /\ \A i \in 1..Len(yearlyData) :
         \A f \in DOMAIN yearlyData[i] \ {"year"} : IsFinite(yearlyData[i][f])

\* C4: a run on a degenerate input (zero horizon, zero mortgage term) is
\* rejected, it returns no snapshots and results, and no returned field is
\* NaN or infinite.
C4_DegenerateRejected ==
    Returned => (~Degenerate(I) /\ AllFinite)

\* C5: when the horizon is at least the mortgage term, the remaining
\* principal is at most 1e-6 in the snapshot of the year equal to the term
\* and in the final snapshot.
C5_PaidOffByTerm ==
    (I.years >= I.mortgageYears) =>
        /\ (I.mortgageYears >= 1 /\ Len(yearlyData) >= I.mortgageYears)
             => Leq(yearlyData[I.mortgageYears].remainingPrincipal, EPS)
        /\ (Returned /\ I.years >= 1)
             => Leq(yearlyData[I.years].remainingPrincipal, EPS)

\* supporting check: C5 holds on the loans with a term of at least one year
C5_PaidOffByTermProperLoans ==
    I.mortgageYears >= 1 => C5_PaidOffByTerm

\* the step just taken brought a positive balance to the payoff threshold
PayoffMonth == Lt(Zero, principalBefore) /\ PaidOff(remainingPrincipal)

\* C6 as stated: in every monthly step executed, interest plus principal
\* paid equals the fixed monthly payment, except possibly in the month the
\* loan is paid off.
C6_PaymentSplitAsStated ==
    StepTaken => (Add(interest, principalPaid) = mortgagePayment \/ PayoffMonth)

\* C6, amended: in every monthly step executed, interest plus principal paid
\* equals the fixed monthly payment, except in the steps whose principal paid
\* is capped to the remaining balance and which leave the balance at zero:
\* the month the loan is paid off and the one step that still runs on the
\* zero balance in each later year.
C6_PaymentSplitUnlessCapped ==
    StepTaken =>
        \/ Add(interest, principalPaid) = mortgagePayment
        \/ (principalPaid = principalBefore /\ remainingPrincipal = Zero)

\* an uncapped step of an interest-bearing loan that leaves a balance
C6_Witness ==
    /\ StepTaken
    /\ IsFinite(mortgagePayment)
    /\ Lt(Zero, interest)
    /\ Lt(Zero, remainingPrincipal)
    /\ principalPaid # principalBefore
    /\ Add(interest, principalPaid) = mortgagePayment

\* C7: once the remaining principal is at or below 1e-6 after a monthly step,
\* no further step runs in that year, the interest of every later year is
\* zero, and the balance stays at or below 1e-6.
C7_PayoffTerminal ==
    /\ (pc = "month" /\ m > 0) => ~PaidOff(remainingPrincipal)
    /\ (pc = "yearEnd" /\ Len(yearlyData) >= 1
          /\ PaidOff(yearlyData[Len(yearlyData)].remainingPrincipal))
         => /\ interestPaidYear = Zero
            /\ PaidOff(remainingPrincipal)

\* the discounted sum of the entries from 0-based position t on, each
\* divided by (1 + r)^t
RECURSIVE DiscountedFrom(_, _, _)
DiscountedFrom(args, r, t) ==
    IF t >= Len(args) THEN Zero
    ELSE Add(Div(args[t + 1], Pow(Add(One, r), t)), DiscountedFrom(args, r, t + 1))

\* C8: each vector passed to npv has N + 2 entries: the upfront transaction
\* (for B minus down payment plus closing costs, else zero), the negated
\* outflow of year y at position y, and the terminal value at position
\* N + 1; npv divides the entry at position t by (1 + r)^t.
C8_CashFlowVector ==
    Returned =>
        /\ \A s \in 1..4 :
             /\ Len(npvArgs[s]) = I.years + 2
             /\ npvArgs[s][I.years + 2] = results[s].terminal
             /\ results[s].npv = DiscountedFrom(npvArgs[s], pct(I.discountRatePct), 0)
        /\ npvArgs[1][1] = Zero
        /\ npvArgs[2][1] =
             Neg(Add(dpB, Mul(I.smallerHomePrice, pct(I.smallerHomeClosingPct))))
        /\ npvArgs[3][1] = Zero
        /\ npvArgs[4][1] = Zero
        /\ \A yr \in 1..I.years :
             /\ npvArgs[1][yr + 1] = Neg(yearlyData[yr].outA)
             /\ npvArgs[2][yr + 1] = Neg(yearlyData[yr].homeCostsB)
             /\ npvArgs[3][yr + 1] = Neg(yearlyData[yr].outC)
             /\ npvArgs[4][yr + 1] = Neg(yearlyData[yr].outD)
        /\ results[1].terminal = TerminalA(yearlyData)
        /\ results[2].terminal = TerminalB(yearlyData)
        /\ results[3].terminal = TerminalC(yearlyData, cashC)
        /\ results[4].terminal = TerminalD(yearlyData)

\* three years, a positive discount rate, a down payment and a finite,
\* non-zero terminal value of B discounted with exponent 4
C8_Witness ==
    /\ Returned
    /\ I.years = 3
    /\ I.discountRatePct = R(100)
    /\ dpB # Zero
    /\ IsFinite(results[2].npv)
    /\ Len(npvArgs[2]) = 5
    /\ npvArgs[2][5] # Zero
    /\ npvArgs[2][4] # Zero

\* the position of the selected result in results
BestIndex == CHOOSE i \in 1..Len(results) : results[i] = best

\* C9: the result selected as best has the maximum NPV of the four, it is
\* the first of those with that NPV in the order A, B, C, D, and the
\* selection leaves the order of results as it was.
C9_BestIsFirstMaximum ==
    pc = "done" =>
        /\ \E i \in 1..4 : results[i] = best
        /\ \A i \in 1..4 : Leq(results[i].npv, best.npv)
        /\ \A i \in 1..4 : results[i].npv = best.npv => BestIndex <= i
        /\ <<results[1].key, results[2].key, results[3].key, results[4].key>>
             = <<"A", "B", "C", "D">>

\* supporting check: C9 holds on the runs none of whose four NPVs is NaN
C9_BestIsFirstMaximumOfNumbers ==
    (pc = "done" /\ ConsistentOn(results)) => C9_BestIsFirstMaximum

RECURSIVE PlainSumFrom(_, _)
PlainSumFrom(args, t) ==
    IF t >= Len(args) THEN Zero
    ELSE Add(args[t + 1], PlainSumFrom(args, t + 1))

\* C11: with a discount rate of 0% the npv of every cash-flow vector is the
\* plain unweighted sum of its entries: the upfront entry, all annual
\* entries and the terminal entry.
C11_UndiscountedNpvIsSum ==
    (Returned /\ I.discountRatePct = Zero) =>
        \A s \in 1..4 : results[s].npv = PlainSumFrom(npvArgs[s], 0)

\* three years at 0%: the NPV of B is a number, its vector has a non-zero
\* upfront entry, a non-zero entry of year 3 and a non-zero terminal entry
C11_Witness ==
    /\ Returned
    /\ I.discountRatePct = Zero
    /\ I.years = 3
    /\ IsFinite(results[2].npv)
    /\ results[2].npv # Zero
    /\ npvArgs[2][1] # Zero
    /\ npvArgs[2][4] # Zero
    /\ npvArgs[2][5] # Zero
    /\ results[2].npv = PlainSumFrom(npvArgs[2], 0)

\* C12: netProceeds is equityBeforeTax minus the capital-gains tax, where
\* equityBeforeTax = price - mortgage balance - price * selling-cost rate and
\* the tax is the cap-gains rate applied to max(0, equityBeforeTax); an
\* underwater sale pays no tax and yields its equityBeforeTax; with zero
\* balance, selling cost and cap-gains rate netProceeds is the price; and
\* price 1,300,000, balance 0, selling cost 6%, cap gains 0% gives 1,222,000.
C12_NetProceeds ==
    pc # "setup" =>
        LET price == I.currentHomeValue
            equity == Sub(Sub(price, I.currentMortgageBalance),
                          Div(Mul(price, I.sellingCostsPct), R(100)))
            tax == IF Lt(Zero, equity)
                   THEN Div(Mul(equity, I.capGainsTaxPct), R(100))
                   ELSE Zero
        IN  /\ netProceeds = Sub(equity, tax)
            /\ Leq(equity, Zero) => netProceeds = equity
            /\ (/\ I.currentMortgageBalance = Zero
                /\ I.sellingCostsPct = Zero
                /\ I.capGainsTaxPct = Zero) => netProceeds = price
            /\ (/\ price = R(1300000)
                /\ I.currentMortgageBalance = Zero
                /\ I.sellingCostsPct = R(6)
                /\ I.capGainsTaxPct = Zero) => netProceeds = R(1222000)

\* the example of the specification, carried through a run of three years
C12_Witness ==
    /\ Returned
    /\ I.years = 3
    /\ I.currentHomeValue = R(1300000)
    /\ I.currentMortgageBalance = Zero
    /\ I.sellingCostsPct = R(6)
    /\ I.capGainsTaxPct = Zero
    /\ netProceeds = R(1222000)

\* C13: in scenarios A and C the annual outflow is not withdrawn from the
\* compounding balance: the balance of the year-y snapshot is the initial
\* invested amount (netProceeds times the share of the scenario) compounded
\* y times at the net annual return, whatever the rent, storage and
\* inflation inputs; the outflow only reduces the net worth of its year,
\* netWorthA = investA - outA and netWorthC = investC + cashC - outC.
C13_BalanceNotWithdrawn ==
    \A yr \in 1..Len(yearlyData) :
        LET growth == Pow(Add(One, pct(investNetRate)), yr)
            startA == Div(Mul(netProceeds, I.investShareA), R(100))
            startC == Div(Mul(netProceeds, I.investShareC), R(100))
            held == Sub(netProceeds, startC)
            snap == yearlyData[yr]
        IN  /\ snap.investA = Mul(startA, growth)
            /\ snap.investC = Mul(startC, growth)
            /\ snap.netWorthA = Sub(snap.investA, snap.outA)
            /\ snap.netWorthC = Sub(Add(snap.investC, held), snap.outC)

\* a third year with outflows, proceeds split in C between balance and cash
C13_Witness ==
    /\ Len(yearlyData) >= 3
    /\ Lt(Zero, netProceeds)
    /\ Lt(Zero, yearlyData[2].outA)
    /\ I.investShareC = R(50)
    /\ Lt(Zero, cashC)
    /\ Lt(yearlyData[1].investA, yearlyData[3].investA)
    /\ Lt(yearlyData[3].netWorthA, yearlyData[3].investA)
    /\ Lt(yearlyData[3].netWorthC, Add(yearlyData[3].investC, cashC))

\* the baseline field the flag does not select
Unselected(inp) == IF inp.useIVV THEN "investReturnPct" ELSE "ivvAnnualReturnPct"

\* C14: the two baseline return sources are mutually exclusive: two runs
\* whose inputs differ only in the value of the unselected baseline return
\* the same netProceeds, the same yearly snapshots and the same four
\* results; the net return used for compounding is the selected baseline
\* plus the adjustment minus the tax drag.
C14_UnselectedBaselineIgnored ==
    /\ pc # "setup" =>
         investNetRate =
             Sub(Add(IF I.useIVV THEN I.ivvAnnualReturnPct ELSE I.investReturnPct,
                     I.returnAdjustPct),
                 I.investTaxDragPct)
    /\ (Returned /\ prev.edited = Unselected(I)) =>
         /\ netProceeds = prev.netProceeds
         /\ yearlyData = prev.yearlyData
         /\ results = prev.results

\* a run of three years after an edit of the manual rate while the index
\* assumption is selected: same snapshots, same results, balances that grew
C14_Witness ==
    /\ Returned
    /\ I.years = 3
    /\ I.useIVV
    /\ prev.edited = "investReturnPct"
    /\ Lt(Zero, netProceeds)
    /\ Len(prev.yearlyData) = 3
    /\ Lt(yearlyData[1].investA, yearlyData[3].investA)
    /\ yearlyData = prev.yearlyData
    /\ results = prev.results

====
